---- MODULE Spec2Model ----
(***************************************************************************)
(* Model of the MCP Agent Stack pipeline of src/src/agents_minimal.py:     *)
(* Orchestrator.run -> LoadBalancer.distribute -> six stage invocations    *)
(* [DataParser, Logger, Summarizer, Logger, Optimizer, Logger].            *)
(*                                                                         *)
(* Text is a sequence of one-character strings.  A value handed to run is  *)
(* a record [type, val]: type "str" carries the text in val; the other     *)
(* types stand for Python's None and for an int such as 123.               *)
(***************************************************************************)
EXTENDS Integers, Sequences, FiniteSets

VARIABLES
    settings,       \* the module-level Settings instance read by the stages
    content,        \* argument `content` of Orchestrator.run
    request_id_arg, \* argument `request_id` of Orchestrator.run
    pc,             \* position of the run: "start", "s0".."s5", "returned", "raised"
    request,        \* the ProcessingRequest built by run
    parsed_data,    \* local of distribute: output of agents[0]
    summary,        \* local of distribute: output of agents[2]
    optimized_content, \* local of distribute: output of agents[4]
    response,       \* the ProcessingResponse handed to the caller of run
    raised,         \* description of the exception run raised to its caller
    uuids,          \* number of uuid4() values drawn so far
    trace,          \* every print, stage invocation, return and raise, in order
    suspended,      \* the frames of the other runs, each waiting at an await
    agent_metrics,  \* MetricsCollector.agent_metrics: name -> AgentMetrics
    calls,          \* the record_request calls made so far, in order
    monitored       \* the last monitor_request call: what it wrapped and gave back

vars == <<settings, content, request_id_arg, pc, request, parsed_data, summary,
          optimized_content, response, raised, uuids, trace,
          suspended, agent_metrics, calls, monitored>>

\* what a step of one pipeline run leaves alone: the other runs and the
\* metrics collector, which the pipeline never calls
outside == <<suspended, agent_metrics, calls, monitored>>

-----------------------------------------------------------------------------
(* Bounds of the model. The Settings sizes are scaled down from            *)
(* max_input_size = 10000 and max_summary_length = 100 so that texts       *)
(* longer than max_input_size and texts with more words than               *)
(* max_summary_length can be enumerated; max_summary_length stays at 3 or  *)
(* more, so that max_length - 3 is not negative, as with the default.      *)

\* scaled Settings.max_input_size
MaxInputSize == 8

\* scaled Settings.max_summary_length
MaxSummaryLength == 3

\* every text of at most this many characters is an input
MaxTextLen == 4

\* characters of the enumerated texts: a letter, two kinds of whitespace,
\* the sentence terminator '.' and a second terminator '!'
Alphabet == {"a", " ", "\n", ".", "!"}

\* str.split() and str.strip() treat all of these as whitespace
Whitespace == {" ", "\n", "\t"}

None == "None"

-----------------------------------------------------------------------------
(* Python string operations, as the stages use them.                        *)

Min(a, b) == IF a <= b THEN a ELSE b

Max(a, b) == IF a >= b THEN a ELSE b

\* s[:n], with Python's meaning of a negative n
SliceTo(s, n) ==
    IF n >= 0 THEN SubSeq(s, 1, Min(n, Len(s)))
    ELSE SubSeq(s, 1, Max(Len(s) + n, 0))

RECURSIVE SplitFrom(_, _, _, _)
SplitFrom(s, i, cur, acc) ==
    IF i > Len(s)
    THEN IF cur = <<>> THEN acc ELSE Append(acc, cur)
    ELSE IF s[i] \in Whitespace
         THEN SplitFrom(s, i + 1, <<>>, IF cur = <<>> THEN acc ELSE Append(acc, cur))
         ELSE SplitFrom(s, i + 1, Append(cur, s[i]), acc)

\* s.split(): the maximal runs of non-whitespace characters
Split(s) == SplitFrom(s, 1, <<>>, <<>>)

RECURSIVE Join(_, _)
\* sep.join(words)
Join(sep, words) ==
    IF words = <<>> THEN <<>>
    ELSE IF Len(words) = 1 THEN words[1]
    ELSE words[1] \o sep \o Join(sep, Tail(words))

StartsWithAt(s, i, pat) ==
    /\ i + Len(pat) - 1 <= Len(s)
    /\ SubSeq(s, i, i + Len(pat) - 1) = pat

RECURSIVE ReplaceFrom(_, _, _, _)
ReplaceFrom(s, i, pat, rep) ==
    IF i > Len(s) THEN <<>>
    ELSE IF StartsWithAt(s, i, pat)
         THEN rep \o ReplaceFrom(s, i + Len(pat), pat, rep)
         ELSE <<s[i]>> \o ReplaceFrom(s, i + 1, pat, rep)

\* s.replace(pat, rep) for a non-empty pat: leftmost, non-overlapping
Replace(s, pat, rep) == ReplaceFrom(s, 1, pat, rep)

\* s.endswith(suffixes) for a tuple of suffixes
EndsWith(s, suffixes) ==
    \E suf \in suffixes :
        /\ Len(suf) <= Len(s)
        /\ SubSeq(s, Len(s) - Len(suf) + 1, Len(s)) = suf

RECURSIVE LStrip(_)
LStrip(s) ==
    IF s # <<>> /\ s[1] \in Whitespace THEN LStrip(Tail(s)) ELSE s

RECURSIVE RStrip(_)
RStrip(s) ==
    IF s # <<>> /\ s[Len(s)] \in Whitespace
    THEN RStrip(SubSeq(s, 1, Len(s) - 1)) ELSE s

\* s.strip()
Strip(s) == RStrip(LStrip(s))

RECURSIVE SplitOnFrom(_, _, _, _)
SplitOnFrom(s, i, ch, cur) ==
    IF i > Len(s) THEN <<cur>>
    ELSE IF s[i] = ch
         THEN <<cur>> \o SplitOnFrom(s, i + 1, ch, <<>>)
         ELSE SplitOnFrom(s, i + 1, ch, Append(cur, s[i]))

\* s.split(ch): the pieces between occurrences of ch, empty pieces kept
SplitOn(s, ch) == SplitOnFrom(s, 1, ch, <<>>)

-----------------------------------------------------------------------------
(* Values.                                                                  *)

\* the characters of a Python str value
Str(chars) == [type |-> "str", val |-> chars]

\* Python's None and an int such as 123, the non-text arguments of the tests
NoneValue == [type |-> "NoneType", val |-> <<>>]

IntValue == [type |-> "int", val |-> <<>>]

\* isinstance(v, str)
IsStr(v) == v.type = "str"

\* every value counts as truthy: the emptiness check is lost
TruthyAlways(v) == TRUE

\* bool(v): an empty str and None are falsy, a non-zero int is truthy
Truthy(v) ==
    CASE v.type = "str" -> v.val # <<>>
      [] v.type = "NoneType" -> FALSE
      [] OTHER -> TRUE

\* outcome of a call: a returned value, or a raised exception with its str()
Returned(v) == [ok |-> TRUE, val |-> v, err |-> None]

Raised(msg) == [ok |-> FALSE, val |-> <<>>, err |-> msg]

\* str(e) of the exceptions of the program
ContentMustBeNonEmpty == "Content must be a non-empty string"

DataMustBeString == "Data must be a string"

DataTooLarge == "Data too large. Maximum characters allowed."

\* str(e) of an exception raised by a stage transformation for a reason
\* outside the program text (a failing sink, a substituted stage)
StageFault == "stage fault"

\* the k-th uuid4() value
Uuid(k) == <<"uuid", k>>

CallerId == <<"caller", 1>>

NoId == <<"None", 0>>

\* the empty string given as request_id
EmptyId == <<"", 0>>

\* truth value of a request_id argument: None and "" are false
TruthyId(rid) == rid \notin {NoId, EmptyId}

-----------------------------------------------------------------------------
(* Data model.                                                              *)

NoRequest == [content |-> NoneValue, request_id |-> NoId]

\* a request that always gets a generated id
ProcessingRequestFreshId(c, rid, k) == [content |-> c, request_id |-> Uuid(k + 1)]

\* ProcessingRequest.__init__: request_id or str(uuid.uuid4())
ProcessingRequest(c, rid, k) ==
    [content |-> c, request_id |-> IF TruthyId(rid) THEN rid ELSE Uuid(k + 1)]

NoResponse ==
    [request_id |-> NoId, processed_content |-> <<>>, summary |-> <<>>,
     success |-> FALSE, error_message |-> None, built |-> FALSE]

\* ProcessingResponse.__init__ (processing_time_ms is wall-clock time and is
\* not modelled); built marks a response object that exists
ProcessingResponse(rid, processed, summ, succ, err) ==
    [request_id |-> rid, processed_content |-> processed, summary |-> summ,
     success |-> succ, error_message |-> err, built |-> TRUE]

NoParsed == [id |-> NoId, content |-> <<>>, length |-> 0, word_count |-> 0,
             max_length |-> 0]

-----------------------------------------------------------------------------
(* Stage transformations (_process_impl of each agent).                     *)

\* the size check is missing
DataParserNoLimit(data, cfg, k) ==
    IF ~IsStr(data) THEN Raised(DataMustBeString)
    ELSE Returned([id |-> Uuid(k + 1), content |-> data.val,
                   length |-> Len(data.val),
                   word_count |-> Len(Split(data.val)),
                   max_length |-> cfg.max_input_size])

\* DataParserAgent._process_impl
DataParserImpl(data, cfg, k) ==
    IF ~IsStr(data) THEN Raised(DataMustBeString)
    ELSE IF Len(data.val) > cfg.max_input_size THEN Raised(DataTooLarge)
    ELSE Returned([id |-> Uuid(k + 1), content |-> data.val,
                   length |-> Len(data.val),
                   word_count |-> Len(Split(data.val)),
                   max_length |-> cfg.max_input_size])

\* SummarizerAgent._create_summary
CreateSummary(text, max_length) ==
    LET sentences == SplitOn(text, ".")
        first == Strip(sentences[1])
    IN IF Len(sentences) <= 1 THEN SliceTo(text, max_length)
       ELSE IF Len(first) > max_length
            THEN SliceTo(first, max_length - 3) \o <<".", ".", ".">>
            ELSE first

\* a summarizer that keeps only content of fewer than max_summary_length words
SummarizerBelowOnly(data, cfg) ==
    LET text == data.content
        words == Split(text)
        max_length == cfg.max_summary_length
    IN IF text = <<>> THEN Returned(<<>>)
       ELSE IF Len(words) < max_length THEN Returned(text)
       ELSE Returned(CreateSummary(text, max_length))

\* SummarizerAgent._process_impl
SummarizerImpl(data, cfg) ==
    LET text == data.content
        words == Split(text)
        max_length == cfg.max_summary_length
    IN IF text = <<>> THEN Returned(<<>>)
       ELSE IF Len(words) <= max_length THEN Returned(text)
       ELSE Returned(CreateSummary(text, max_length))

NoisePatterns == << <<"\n", "\n", "\n">>, <<"\t", "\t">>, <<" ", " ">> >>

Terminators == { <<".">>, <<"!">>, <<"?">> }

RECURSIVE ReplaceAll(_, _, _)
\* for pattern in noise_patterns: optimized = optimized.replace(pattern, ' ')
ReplaceAll(s, patterns, rep) ==
    IF patterns = <<>> THEN s
    ELSE ReplaceAll(Replace(s, Head(patterns), rep), Tail(patterns), rep)

\* the period is appended without looking at the last character
OptimizeAlwaysAppends(text) ==
    LET joined == Join(<<" ">>, Split(text))
        cleaned == ReplaceAll(joined, NoisePatterns, <<" ">>)
        ended == IF cleaned # <<>> THEN cleaned \o <<".">> ELSE cleaned
    IN Strip(ended)

\* OptimizerAgent._optimize_content
OptimizeContent(text) ==
    LET joined == Join(<<" ">>, Split(text))
        cleaned == ReplaceAll(joined, NoisePatterns, <<" ">>)
        ended == IF cleaned # <<>> /\ ~EndsWith(cleaned, Terminators)
                 THEN cleaned \o <<".">> ELSE cleaned
    IN Strip(ended)

\* the enable_optimization flag is not consulted
OptimizerIgnoresFlag(text, cfg) == Returned(OptimizeContent(text))

\* OptimizerAgent._process_impl
OptimizerImpl(text, cfg) ==
    IF ~cfg.enable_optimization THEN Returned(text)
    ELSE Returned(OptimizeContent(text))

-----------------------------------------------------------------------------
(* The trace of observable steps: prints, stage invocations, returns and    *)
(* raises, in program order.                                                *)

Event(ev, pos, tag, msg) == [ev |-> ev, pos |-> pos, tag |-> tag, msg |-> msg]

\* print(f"[{tag}] {msg} ...")
Printed(tag, msg) == Event("print", -1, tag, msg)

\* AgentFactory.create_agents: the stage at each position of LoadBalancer.agents
AgentNames == <<"data_parser", "logger", "summarizer", "logger", "optimizer", "logger">>

NumStages == Len(AgentNames)

\* BaseAgent.name of self.agents[pos]
AgentName(pos) == AgentNames[pos + 1]

\* A transformation that would return raises StageFault instead when the
\* environment makes it fail; the raises the program text decides come first.
WithFault(outcome, fault) ==
    IF outcome.ok /\ fault THEN Raised(StageFault) ELSE outcome

\* LoggerAgent._process_impl: prints the message, returns None
LoggerImpl(message) == Returned(NoneValue)

\* a wrapper that swallows the failure and returns what it has
ProcessSwallows(outcome) == Returned(outcome.val)

\* BaseAgent.process: the outcome it hands to its caller, given the outcome
\* of self._process_impl(data)
Process(outcome) ==
    IF outcome.ok THEN Returned(outcome.val) ELSE Raised(outcome.err)

\* BaseAgent.process: what it prints around the transformation
ProcessEvents(pos, implPrints, outcome) ==
    <<Event("invoke", pos, AgentName(pos), "")>>
    \o (IF outcome.ok THEN implPrints ELSE <<>>)
    \o (IF outcome.ok
        THEN <<Event("print", pos, AgentName(pos), "Processed in"),
               Event("return", pos, AgentName(pos), "")>>
        ELSE <<Event("print", pos, AgentName(pos), "Error after"),
               Event("raise", pos, AgentName(pos), outcome.err)>>)

\* the checkpoint is printed after the stage has been awaited
CheckpointAfterCall(pos, checkpoint, outcome) ==
    ProcessEvents(pos, <<>>, outcome) \o <<Printed("LOAD_BALANCER", checkpoint)>>

\* LoadBalancer.distribute, steps 1, 3 and 5: the checkpoint is printed, then
\* the stage is awaited
CheckpointedCall(pos, checkpoint, outcome) ==
    <<Printed("LOAD_BALANCER", checkpoint)>> \o ProcessEvents(pos, <<>>, outcome)

-----------------------------------------------------------------------------
(* Inputs of the model.                                                     *)

\* every text of at most MaxTextLen characters
ShortTexts == UNION {[1..n -> Alphabet] : n \in 0..MaxTextLen}

\* words of the longer texts: with and without the sentence terminator
Words == { <<"a">>, <<"a", ".">>, <<".">> }

\* texts of max_summary_length words, which the Summarizer keeps, and of
\* max_summary_length + 1 words, which it shortens
LongTexts ==
    {Join(<<" ">>, ws) :
        ws \in UNION {[1..n -> Words] : n \in MaxSummaryLength..(MaxSummaryLength + 1)}}

\* "x" * (max_input_size + 1), for each character x
Oversize == {[i \in 1..(MaxInputSize + 1) |-> c] : c \in Alphabet}

Texts == ShortTexts \cup LongTexts \cup Oversize

Contents == {Str(t) : t \in Texts} \cup {NoneValue, IntValue}

RequestIdArgs == {NoId, CallerId, EmptyId}

SettingsValues ==
    [max_summary_length : {MaxSummaryLength},
     max_input_size : {MaxInputSize},
     enable_optimization : BOOLEAN,
     enable_input_validation : BOOLEAN]

-----------------------------------------------------------------------------
(* Metrics collector (monitoring.py).                                       *)

\* MetricsCollector._setup_metrics: the names that have an AgentMetrics
RegisteredAgents == {"data_parser", "summarizer", "optimizer", "logger"}

\* a quotient of two durations/counts, kept exact
Quotient(num, den) == <<num, den>>

\* AgentMetrics(agent_name=agent): the defaults of the model class.
\* last_processed is the ordinal of the record_request call that set it,
\* 0 for None.
NewAgentMetrics(agent) ==
    [agent_name |-> agent, requests_processed |-> 0, total_processing_time |-> 0,
     average_processing_time |-> Quotient(0, 1), error_count |-> 0,
     last_processed |-> 0]

\* MetricsCollector.__init__
SetupMetrics == [agent \in RegisteredAgents |-> NewAgentMetrics(agent)]

\* no monitor_request call has been made
NoMonitored ==
    [made |-> FALSE, agent_name |-> None, func |-> Raised(None),
     given |-> Raised(None), before |-> 0, after |-> 0]

-----------------------------------------------------------------------------
(* State machine.                                                           *)

\* a fresh Orchestrator and a fresh MetricsCollector, no run started
InitWith(cfgs, others) ==
    /\ settings \in cfgs
    /\ content = NoneValue
    /\ request_id_arg = NoId
    /\ pc = "idle"
    /\ request = NoRequest
    /\ parsed_data = NoParsed
    /\ summary = <<>>
    /\ optimized_content = <<>>
    /\ response = NoResponse
    /\ raised = None
    /\ uuids = 0
    /\ trace = <<>>
    /\ suspended = others
    /\ agent_metrics = SetupMetrics
    /\ calls = <<>>
    /\ monitored = NoMonitored

Init == InitWith(SettingsValues, <<>>)

\* Orchestrator.run up to the call of distribute: validation, request
\* construction, start print; a validation failure is printed and re-raised
OrchestratorRunOn(c, rid) ==
    /\ pc = "idle"
    /\ content' = c
    /\ request_id_arg' = rid
    /\ IF settings.enable_input_validation /\ (~Truthy(c) \/ ~IsStr(c))
       THEN /\ raised' = ContentMustBeNonEmpty
            /\ trace' = trace \o <<Printed("ORCHESTRATOR", "Orchestration failed")>>
            /\ pc' = "raised"
            /\ UNCHANGED <<request, uuids>>
       ELSE /\ request' = ProcessingRequest(c, rid, uuids)
            /\ uuids' = IF request'.request_id = rid THEN uuids ELSE uuids + 1
            /\ trace' = trace \o <<Printed("ORCHESTRATOR", "Starting orchestration")>>
            /\ pc' = "s0"
            /\ UNCHANGED raised
    /\ UNCHANGED <<settings, parsed_data, summary, optimized_content, response>>
    /\ UNCHANGED outside

\* a call of Orchestrator.run with any content and request_id
OrchestratorRun ==
    /\ pc = "idle"
    /\ \E c \in Contents, rid \in RequestIdArgs : OrchestratorRunOn(c, rid)

\* a stage failure is retried instead of ending the run
DistributeRetries(events, err) ==
    /\ response' = response
    /\ trace' = trace \o events
    /\ pc' = pc

\* the failure response carries the partial results and no error message
DistributeFailsLeaky(events, err) ==
    /\ response' = ProcessingResponse(request.request_id, optimized_content,
                                       summary, FALSE, None)
    /\ trace' = trace \o events
                \o <<Printed("LOAD_BALANCER", "Processing failed"),
                     Printed("ORCHESTRATOR", "Orchestration completed")>>
    /\ pc' = "returned"

\* LoadBalancer.distribute, except branch, followed by the rest of
\* Orchestrator.run: the failure response is built and returned to the caller
DistributeFails(events, err) ==
    /\ response' = ProcessingResponse(request.request_id, <<>>, <<>>, FALSE, err)
    /\ trace' = trace \o events
                \o <<Printed("LOAD_BALANCER", "Processing failed"),
                     Printed("ORCHESTRATOR", "Orchestration completed")>>
    /\ pc' = "returned"

\* Step 1: print the start checkpoint, await agents[0].process(request.content)
ParseStage ==
    /\ pc = "s0"
    /\ \E fault \in BOOLEAN :
        LET impl == WithFault(DataParserImpl(request.content, settings, uuids), fault)
            out == Process(impl)
            events == CheckpointedCall(0, "Starting data parsing", impl)
        IN IF out.ok
           THEN /\ parsed_data' = out.val
                /\ uuids' = uuids + 1
                /\ trace' = trace \o events
                /\ pc' = "s1"
                /\ UNCHANGED response
           ELSE /\ DistributeFails(events, out.err)
                /\ UNCHANGED <<parsed_data, uuids>>
    /\ UNCHANGED <<settings, content, request_id_arg, request, summary,
                   optimized_content, raised>>
    /\ UNCHANGED outside

\* Steps 2, 4 and 6 up to the await: agents[pos].process(message)
LogStage(pos, message, fault) ==
    LET impl == WithFault(LoggerImpl(message), fault)
    IN [out |-> Process(impl),
        events |-> ProcessEvents(pos, <<Event("print", pos, "logger", message)>>, impl)]

\* Step 2: await agents[1].process("Data parsed successfully ...")
LogParsed ==
    /\ pc = "s1"
    /\ \E fault \in BOOLEAN :
        LET r == LogStage(1, "Data parsed successfully", fault)
        IN IF r.out.ok
           THEN /\ trace' = trace \o r.events
                /\ pc' = "s2"
                /\ UNCHANGED response
           ELSE DistributeFails(r.events, r.out.err)
    /\ UNCHANGED <<settings, content, request_id_arg, request, parsed_data, summary,
                   optimized_content, raised, uuids>>
    /\ UNCHANGED outside

\* Step 3: print the checkpoint, await agents[2].process(parsed_data)
SummarizeStage ==
    /\ pc = "s2"
    /\ \E fault \in BOOLEAN :
        LET impl == WithFault(SummarizerImpl(parsed_data, settings), fault)
            out == Process(impl)
            events == CheckpointedCall(2, "Starting summarization", impl)
        IN IF out.ok
           THEN /\ summary' = out.val
                /\ trace' = trace \o events
                /\ pc' = "s3"
                /\ UNCHANGED response
           ELSE /\ DistributeFails(events, out.err)
                /\ UNCHANGED summary
    /\ UNCHANGED <<settings, content, request_id_arg, request, parsed_data,
                   optimized_content, raised, uuids>>
    /\ UNCHANGED outside

\* Step 4: await agents[3].process("Content summarized ...")
LogSummarized ==
    /\ pc = "s3"
    /\ \E fault \in BOOLEAN :
        LET r == LogStage(3, "Content summarized", fault)
        IN IF r.out.ok
           THEN /\ trace' = trace \o r.events
                /\ pc' = "s4"
                /\ UNCHANGED response
           ELSE DistributeFails(r.events, r.out.err)
    /\ UNCHANGED <<settings, content, request_id_arg, request, parsed_data, summary,
                   optimized_content, raised, uuids>>
    /\ UNCHANGED outside

\* Step 5: print the checkpoint, await agents[4].process(summary)
OptimizeStage ==
    /\ pc = "s4"
    /\ \E fault \in BOOLEAN :
        LET impl == WithFault(OptimizerImpl(summary, settings), fault)
            out == Process(impl)
            events == CheckpointedCall(4, "Starting optimization", impl)
        IN IF out.ok
           THEN /\ optimized_content' = out.val
                /\ trace' = trace \o events
                /\ pc' = "s5"
                /\ UNCHANGED response
           ELSE /\ DistributeFails(events, out.err)
                /\ UNCHANGED optimized_content
    /\ UNCHANGED <<settings, content, request_id_arg, request, parsed_data,
                   summary, raised, uuids>>
    /\ UNCHANGED outside

\* Step 6: await agents[5].process("Processing completed ..."), then build the
\* success response; Orchestrator.run prints and returns it unchanged
LogCompleted ==
    /\ pc = "s5"
    /\ \E fault \in BOOLEAN :
        LET r == LogStage(5, "Processing completed", fault)
        IN IF r.out.ok
           THEN /\ response' = ProcessingResponse(request.request_id,
                                   optimized_content, summary, TRUE, None)
                /\ trace' = trace \o r.events
                            \o <<Printed("ORCHESTRATOR", "Orchestration completed")>>
                /\ pc' = "returned"
           ELSE DistributeFails(r.events, r.out.err)
    /\ UNCHANGED <<settings, content, request_id_arg, request, parsed_data, summary,
                   optimized_content, raised, uuids>>
    /\ UNCHANGED outside

-----------------------------------------------------------------------------
(* Several runs against one Orchestrator (asyncio.gather of run calls):     *)
(* one run executes at a time, and at an await it may be suspended and      *)
(* another run resumed. What a run owns is its arguments and locals; the    *)
(* Orchestrator, its agents, the settings and the uuid source are shared.   *)

\* number of concurrent run calls
NumRuns == 2

\* the arguments, locals and position of the run that is executing
CurrentFrame ==
    [content |-> content, request_id_arg |-> request_id_arg, pc |-> pc,
     request |-> request, parsed_data |-> parsed_data, summary |-> summary,
     optimized_content |-> optimized_content, response |-> response,
     raised |-> raised, trace |-> trace]

\* a run call that has not started executing
FreshFrame ==
    [content |-> NoneValue, request_id_arg |-> NoId, pc |-> "idle",
     request |-> NoRequest, parsed_data |-> NoParsed, summary |-> <<>>,
     optimized_content |-> <<>>, response |-> NoResponse,
     raised |-> None, trace |-> <<>>]

\* the summary is kept on the shared LoadBalancer instead of in the run
SwitchSharingSummary(i) ==
    /\ i \in DOMAIN suspended
    /\ suspended[i].pc \notin {"returned", "raised"}
    /\ suspended' = [suspended EXCEPT ![i] = CurrentFrame]
    /\ content' = suspended[i].content
    /\ request_id_arg' = suspended[i].request_id_arg
    /\ pc' = suspended[i].pc
    /\ request' = suspended[i].request
    /\ parsed_data' = suspended[i].parsed_data
    /\ summary' = summary
    /\ optimized_content' = suspended[i].optimized_content
    /\ response' = suspended[i].response
    /\ raised' = suspended[i].raised
    /\ trace' = suspended[i].trace
    /\ UNCHANGED <<settings, uuids, agent_metrics, calls, monitored>>

\* the event loop suspends the executing run at its await (or at its start or
\* end) and resumes run i, which has not finished, where it had stopped
SwitchTo(i) ==
    /\ i \in DOMAIN suspended
    /\ suspended[i].pc \notin {"returned", "raised"}
    /\ suspended' = [suspended EXCEPT ![i] = CurrentFrame]
    /\ content' = suspended[i].content
    /\ request_id_arg' = suspended[i].request_id_arg
    /\ pc' = suspended[i].pc
    /\ request' = suspended[i].request
    /\ parsed_data' = suspended[i].parsed_data
    /\ summary' = suspended[i].summary
    /\ optimized_content' = suspended[i].optimized_content
    /\ response' = suspended[i].response
    /\ raised' = suspended[i].raised
    /\ trace' = suspended[i].trace
    /\ UNCHANGED <<settings, uuids, agent_metrics, calls, monitored>>

Switch == \E i \in 1..(NumRuns - 1) : SwitchTo(i)

\* the number of run calls that have started executing
Started ==
    (IF pc = "idle" THEN 0 ELSE 1)
    + Cardinality({i \in DOMAIN suspended : suspended[i].pc # "idle"})

\* contents[i] of the gathered calls, distinct for each call: i words with
\* whitespace the Optimizer collapses
GatheredContent(i) == Str(<<" ">> \o Join(<<" ", " ">>, [k \in 1..i |-> <<"a">>]))

\* the next of the gathered calls starts: orchestrator.run(content)
ConcurrentRun == OrchestratorRunOn(GatheredContent(Started + 1), NoId)

DefaultSettings ==
    [max_summary_length |-> MaxSummaryLength, max_input_size |-> MaxInputSize,
     enable_optimization |-> TRUE, enable_input_validation |-> TRUE]

ConcurrentInit ==
    InitWith({DefaultSettings}, [i \in 1..(NumRuns - 1) |-> FreshFrame])

ConcurrentNext ==
    \/ ConcurrentRun
    \/ ParseStage
    \/ LogParsed
    \/ SummarizeStage
    \/ LogSummarized
    \/ OptimizeStage
    \/ LogCompleted
    \/ Switch

SpecConcurrent == ConcurrentInit /\ [][ConcurrentNext]_vars

-----------------------------------------------------------------------------
(* The synchronous orchestrator of src/src/agents.py: run(data) returns     *)
(* distribute(data), which logs and calls parse, summarize and optimize in  *)
(* turn. It shares no code with agents_minimal.py; the model reuses the     *)
(* variables content, parsed_data, summary, optimized_content, uuids, trace *)
(* and pc for its argument, locals, uuid draws, output and position.        *)

\* SummarizerAgent.summarize keeps this many characters
SyncSummaryLength == 50

\* longest run of whitespace put before or after the letters of an input
MaxPad == 2

\* DataParserAgent.parse
SyncParse(data, k) == [id |-> Uuid(k + 1), content |-> data]

\* SummarizerAgent.summarize: content[:50]
SyncSummarize(text) == SliceTo(text, SyncSummaryLength)

\* an optimizer that returns its input as it is
SyncOptimizeNothing(text) == text

\* OptimizerAgent.optimize: content.strip()
SyncOptimize(text) == Strip(text)

\* LoggerAgent.log: print(f"[LOG] {message}")
SyncLog(message) == Printed("LOG", message)

\* the stage is called before its message is logged
SyncCallThenLog(message, pos, stage) == <<Event("invoke", pos, stage, ""), SyncLog(message)>>

\* logger.log(message) followed by the call of the stage, as distribute
\* writes them
SyncLoggedCall(message, pos, stage) == <<SyncLog(message), Event("invoke", pos, stage, "")>>

\* n letters
Letters(n) == [i \in 1..n |-> "a"]

\* runs of whitespace of at most MaxPad characters
Pads == UNION {[1..n -> Whitespace] : n \in 0..MaxPad}

\* the data handed to run: whitespace, letters, whitespace, and possibly one
\* more letter; the letters are few, or about as many as the summary keeps
SyncTexts ==
    {lead \o Letters(n) \o mid \o last :
        lead \in Pads, mid \in Pads, last \in {<<>>, <<"a">>},
        n \in (0..MaxPad) \cup
              ((SyncSummaryLength - MaxPad)..(SyncSummaryLength + MaxPad))}

SyncInit == InitWith({DefaultSettings}, <<>>)

\* Orchestrator.run(data): calls self.lb.distribute(data), which unpacks the
\* agents
SyncRun ==
    /\ pc = "idle"
    /\ \E data \in SyncTexts : content' = Str(data)
    /\ pc' = "y0"
    /\ UNCHANGED <<settings, request_id_arg, request, parsed_data, summary,
                   optimized_content, response, raised, uuids, trace>>
    /\ UNCHANGED outside

\* logger.log("Parsing data"); parsed = parser.parse(data)
SyncParseStep ==
    /\ pc = "y0"
    /\ trace' = trace \o SyncLoggedCall("Parsing data", 0, "parse")
    /\ parsed_data' = SyncParse(content.val, uuids)
    /\ uuids' = uuids + 1
    /\ pc' = "y1"
    /\ UNCHANGED <<settings, content, request_id_arg, request, summary,
                   optimized_content, response, raised>>
    /\ UNCHANGED outside

\* logger.log("Summarizing data"); summary = summarizer.summarize(parsed["content"])
SyncSummarizeStep ==
    /\ pc = "y1"
    /\ trace' = trace \o SyncLoggedCall("Summarizing data", 1, "summarize")
    /\ summary' = SyncSummarize(parsed_data.content)
    /\ pc' = "y2"
    /\ UNCHANGED <<settings, content, request_id_arg, request, parsed_data,
                   optimized_content, response, raised, uuids>>
    /\ UNCHANGED outside

\* logger.log("Optimizing summary"); return optimizer.optimize(summary);
\* run returns that value
SyncOptimizeStep ==
    /\ pc = "y2"
    /\ trace' = trace \o SyncLoggedCall("Optimizing summary", 2, "optimize")
    /\ optimized_content' = SyncOptimize(summary)
    /\ pc' = "returned"
    /\ UNCHANGED <<settings, content, request_id_arg, request, parsed_data,
                   summary, response, raised, uuids>>
    /\ UNCHANGED outside

SyncNext ==
    \/ SyncRun
    \/ SyncParseStep
    \/ SyncSummarizeStep
    \/ SyncOptimizeStep

SpecSync == SyncInit /\ [][SyncNext]_vars

-----------------------------------------------------------------------------
(* The metrics collector and the monitoring wrapper of src/src/monitoring.py *)
(* on their own: calls of MetricsCollector.record_request and of             *)
(* MonitoringMiddleware.monitor_request against one collector. calls is the  *)
(* history of the record_request calls (what the Prometheus counter and      *)
(* histogram were fed); a duration is a whole number of time units.          *)

\* number of record_request calls made against the collector
MaxCalls == 3

\* the agent_name arguments: two registered stages and the name the tests use
CallNames == {"data_parser", "optimizer", "test_agent"}

Durations == {1, 2}

\* the wrapped function returns a value or raises
FuncOutcomes == {Returned(IntValue), Raised("Test error")}

\* a record_request that does not count failures
RecordedLosingErrors(metrics, agent_name, duration, success, now) ==
    IF agent_name \in DOMAIN metrics
    THEN LET m == metrics[agent_name]
             n == m.requests_processed + 1
             total == m.total_processing_time + duration
         IN [metrics EXCEPT ![agent_name] =
                [m EXCEPT !.requests_processed = n,
                          !.total_processing_time = total,
                          !.average_processing_time = Quotient(total, n),
                          !.last_processed = now]]
    ELSE metrics

\* MetricsCollector.record_request: the agent_metrics it leaves
Recorded(metrics, agent_name, duration, success, now) ==
    IF agent_name \in DOMAIN metrics
    THEN LET m == metrics[agent_name]
             n == m.requests_processed + 1
             total == m.total_processing_time + duration
         IN [metrics EXCEPT ![agent_name] =
                [m EXCEPT !.requests_processed = n,
                          !.total_processing_time = total,
                          !.average_processing_time = Quotient(total, n),
                          !.last_processed = now,
                          !.error_count = IF success THEN @ ELSE @ + 1]]
    ELSE metrics

\* one record_request call as the history keeps it
Call(agent_name, duration, success) ==
    [agent_name |-> agent_name, duration |-> duration, success |-> success]

\* a wrapper that records the failure and returns None instead of raising
MonitoredSwallowing(func) ==
    [given |-> IF func.ok THEN Returned(func.val) ELSE Returned(NoneValue),
     records |-> <<func.ok>>]

\* MonitoringMiddleware.monitor_request: what it hands to its caller given
\* the outcome of func, and the success flags of the record_request calls it
\* makes
Monitored(func) ==
    [given |-> IF func.ok THEN Returned(func.val) ELSE Raised(func.err),
     records |-> IF func.ok THEN <<TRUE>> ELSE <<FALSE>>]

\* record_request calls with these success flags, one after the other
RECURSIVE RecordedAll(_, _, _, _, _)
RecordedAll(metrics, agent_name, duration, flags, now) ==
    IF flags = <<>> THEN metrics
    ELSE RecordedAll(Recorded(metrics, agent_name, duration, Head(flags), now + 1),
                     agent_name, duration, Tail(flags), now + 1)

MetricsInit == InitWith({DefaultSettings}, <<>>)

pipeline ==
    <<settings, content, request_id_arg, pc, request, parsed_data, summary,
      optimized_content, response, raised, uuids, trace, suspended>>

\* collector.record_request(agent_name, duration, success)
RecordRequest ==
    /\ Len(calls) < MaxCalls
    /\ \E agent_name \in CallNames, duration \in Durations, success \in BOOLEAN :
        /\ agent_metrics' =
               Recorded(agent_metrics, agent_name, duration, success, Len(calls) + 1)
        /\ calls' = Append(calls, Call(agent_name, duration, success))
    /\ UNCHANGED monitored
    /\ UNCHANGED pipeline

\* await middleware.monitor_request(agent_name, func): func runs for
\* duration and returns or raises
MonitorRequest ==
    /\ Len(calls) < MaxCalls
    /\ \E agent_name \in CallNames, duration \in Durations, func \in FuncOutcomes :
        LET r == Monitored(func)
        IN /\ agent_metrics' =
                  RecordedAll(agent_metrics, agent_name, duration, r.records, Len(calls))
           /\ calls' = calls \o [i \in DOMAIN r.records |->
                                    Call(agent_name, duration, r.records[i])]
           /\ monitored' = [made |-> TRUE, agent_name |-> agent_name, func |-> func,
                            given |-> r.given, before |-> Len(calls),
                            after |-> Len(calls')]
    /\ UNCHANGED pipeline

MetricsNext ==
    \/ RecordRequest
    \/ MonitorRequest

SpecMetrics == MetricsInit /\ [][MetricsNext]_vars

-----------------------------------------------------------------------------
(* One run of the pipeline of agents_minimal.py.                            *)

Next ==
    \/ OrchestratorRun
    \/ ParseStage
    \/ LogParsed
    \/ SummarizeStage
    \/ LogSummarized
    \/ OptimizeStage
    \/ LogCompleted

Spec == Init /\ [][Next]_vars

-----------------------------------------------------------------------------
(* Properties.                                                              *)

\* the stage invocations of the run so far, in order
Invoked == SelectSeq(trace, LAMBDA e : e.ev = "invoke")

\* positions in the trace of an event of a stage
At(ev, pos) == {i \in DOMAIN trace : trace[i].ev = ev /\ trace[i].pos = pos}

FixedOrder == <<"data_parser", "logger", "summarizer", "logger", "optimizer", "logger">>

Finished == pc = "returned" /\ response.built

\* C1: the stage invocations of a run are a prefix of [Parser, Logger,
\* Summarizer, Logger, Optimizer, Logger]: each position is invoked at most
\* once, a stage is invoked only after the stage before it has returned, and a
\* response with success=true has all six invocations behind it.
C1_StagesInFixedOrder ==
    /\ Len(Invoked) <= Len(FixedOrder)
    /\ \A i \in 1..Len(Invoked) :
        /\ Invoked[i].pos = i - 1
        /\ Invoked[i].tag = FixedOrder[i]
    /\ \A i \in DOMAIN trace :
        (trace[i].ev = "invoke" /\ trace[i].pos > 0)
            => \E j \in 1..(i - 1) :
                   trace[j].ev = "return" /\ trace[j].pos = trace[i].pos - 1
    /\ (response.built /\ response.success) => Len(Invoked) = Len(FixedOrder)

C1_Witness ==
    /\ Finished
    /\ response.success
    /\ Len(Invoked) = 6

\* C2: once a stage invocation has raised, no later stage is invoked and the
\* run has returned (not raised) a response with success=false, empty
\* processed_content and summary, and the failure's description as
\* error_message; run raises only before a request exists.
C2_StageFailureBecomesResponse ==
    /\ \A i \in DOMAIN trace :
        trace[i].ev = "raise"
            => /\ \A j \in (i + 1)..Len(trace) : trace[j].ev # "invoke"
               /\ pc = "returned"
               /\ raised = None
               /\ response.built
               /\ ~response.success
               /\ response.processed_content = <<>>
               /\ response.summary = <<>>
               /\ response.error_message = trace[i].msg
    /\ pc = "raised" => (request = NoRequest /\ Invoked = <<>>)
    /\ (pc = "returned" /\ ~response.success) => \E i \in DOMAIN trace : trace[i].ev = "raise"

C2_Witness ==
    /\ Finished
    /\ At("raise", 4) # {}
    /\ summary # <<>>
    /\ response.error_message = StageFault
    /\ response.summary = <<>>

\* the default configuration: input validation and optimization enabled
DefaultFlags == settings.enable_input_validation /\ settings.enable_optimization

\* C3: every response has either success=true with a non-empty
\* processed_content, or success=false with an error_message, and has an
\* error_message exactly when success is false. Stated for the default
\* configuration, an instance of the claim's "any configuration".
C3_ResponseInvariant ==
    (response.built /\ DefaultFlags) =>
        /\ (response.success /\ response.processed_content # <<>>)
             \/ (~response.success /\ response.error_message \notin {None, ""})
        /\ (response.error_message # None) <=> ~response.success

\* the input of the run is a non-empty text within the size limit
ValidInput ==
    /\ pc # "idle"
    /\ IsStr(content)
    /\ content.val # <<>>
    /\ Len(content.val) <= settings.max_input_size

\* no stage transformation failed for a reason outside the program text
NoStageFault == \A i \in DOMAIN trace : trace[i].msg # StageFault

\* C4: with optimization enabled, a run on a non-empty text within the size
\* limit returns success=true and a processed_content ending in '.', '!' or
\* '?'. Stated for the default configuration and for runs in which no stage
\* failed for an outside reason.
C4_ProcessedEndsWithTerminator ==
    (Finished /\ ValidInput /\ DefaultFlags /\ NoStageFault) =>
        /\ response.success
        /\ response.processed_content # <<>>
        /\ response.processed_content[Len(response.processed_content)]
               \in {".", "!", "?"}

\* the Summarizer stage has returned in this run
Summarized == At("return", 2) # {}

\* C5: for a non-empty text within the size limit, the summary the Summarizer
\* stage produces, and the summary of the response, have at most
\* max_summary_length characters. Stated for the default configuration.
C5_SummaryWithinMaxLength ==
    (ValidInput /\ Summarized /\ DefaultFlags) =>
        /\ Len(summary) <= settings.max_summary_length
        /\ (response.built /\ response.success)
               => Len(response.summary) <= settings.max_summary_length

\* C6: a run on a text longer than max_input_size returns (does not raise) a
\* response with success=false, the size-exceeded error_message and empty
\* processed_content and summary, and invokes neither Summarizer nor Optimizer.
C6_OversizeBecomesFailure ==
    (pc # "idle" /\ IsStr(content) /\ Len(content.val) > settings.max_input_size) =>
        /\ pc \in {"s0", "returned"}
        /\ raised = None
        /\ At("invoke", 2) = {} /\ At("invoke", 4) = {}
        /\ pc = "returned" =>
            /\ response.built
            /\ ~response.success
            /\ response.error_message = DataTooLarge
            /\ response.processed_content = <<>>
            /\ response.summary = <<>>

C6_Witness ==
    /\ Finished
    /\ IsStr(content)
    /\ Len(content.val) = settings.max_input_size + 1
    /\ response.error_message = DataTooLarge
    /\ At("raise", 0) # {}

\* C7: with input validation enabled, a run on empty content or on content
\* that is not text raises the invalid-content failure before a request is
\* built and before any stage is invoked, and produces no response.
C7_InvalidContentRaises ==
    (pc # "idle" /\ settings.enable_input_validation
                 /\ (~IsStr(content) \/ content.val = <<>>)) =>
        /\ pc = "raised"
        /\ raised = ContentMustBeNonEmpty
        /\ request = NoRequest
        /\ uuids = 0
        /\ Invoked = <<>>
        /\ ~response.built

C7_Witness ==
    /\ pc = "raised"
    /\ content = Str(<<>>)
    /\ raised = ContentMustBeNonEmpty

\* the Optimizer stage has returned in this run
Optimized == At("return", 4) # {}

\* C8: with optimization enabled the Optimizer is idempotent: applying it to
\* the text it produced yields that text again.
C8_OptimizerIdempotent ==
    (Optimized /\ settings.enable_optimization) =>
        LET again == Process(OptimizerImpl(optimized_content, settings))
        IN again.ok /\ again.val = optimized_content

C8_Witness ==
    /\ Optimized
    /\ settings.enable_optimization
    /\ summary = <<" ", "a", "\n", "a">>
    /\ optimized_content = <<"a", " ", "a", ".">>

\* C9: with optimization disabled the Optimizer returns its input unchanged:
\* a successful run's processed_content is the Summarizer's output and the
\* response's summary, whitespace and punctuation as they were.
C9_DisabledOptimizerIsIdentity ==
    (Optimized /\ ~settings.enable_optimization) =>
        /\ optimized_content = summary
        /\ (response.built /\ response.success) =>
            /\ response.processed_content = summary
            /\ response.processed_content = response.summary

C9_Witness ==
    /\ Finished
    /\ response.success
    /\ ~settings.enable_optimization
    /\ response.processed_content = <<" ", "a", " ", " ">>

\* the checkpoint emissions of the run: the executor's stage-start prints and
\* the messages the Logger stages print
Checkpoints ==
    SelectSeq(trace, LAMBDA e :
        /\ e.ev = "print"
        /\ \/ e.tag = "LOAD_BALANCER"
           \/ (e.tag = "logger" /\ e.msg \notin {"Processed in", "Error after"}))

CheckpointOrder ==
    <<"Starting data parsing", "Data parsed successfully",
      "Starting summarization", "Content summarized",
      "Starting optimization", "Processing completed">>

\* position in the trace of the checkpoint with this message
CheckpointAt(msg) == {i \in DOMAIN trace : trace[i].ev = "print" /\ trace[i].msg = msg}

Before(A, B) == \A i \in A, j \in B : i < j

\* C10: in a successful run the checkpoints are emitted exactly in the order
\* parse-start, parse-complete, summarize-start, summarize-complete,
\* optimize-start, optimize-complete; each start checkpoint precedes the
\* invocation of its stage, and each complete checkpoint follows that stage's
\* return and precedes the next start checkpoint.
C10_CheckpointOrder ==
    (Finished /\ response.success) =>
        /\ Len(Checkpoints) = Len(CheckpointOrder)
        /\ \A i \in 1..Len(Checkpoints) : Checkpoints[i].msg = CheckpointOrder[i]
        /\ \A k \in {0, 1, 2} :
            /\ Cardinality(CheckpointAt(CheckpointOrder[2 * k + 1])) = 1
            /\ Cardinality(CheckpointAt(CheckpointOrder[2 * k + 2])) = 1
            /\ Cardinality(At("invoke", 2 * k)) = 1
            /\ Cardinality(At("return", 2 * k)) = 1
            /\ Before(CheckpointAt(CheckpointOrder[2 * k + 1]), At("invoke", 2 * k))
            /\ Before(At("return", 2 * k), CheckpointAt(CheckpointOrder[2 * k + 2]))
            /\ k < 2 => Before(CheckpointAt(CheckpointOrder[2 * k + 2]),
                               CheckpointAt(CheckpointOrder[2 * k + 3]))

C10_Witness ==
    /\ Finished
    /\ response.success
    /\ Len(Checkpoints) = 6
    /\ content = Str(<<"a", ".">>)

\* every run call: the executing one and the suspended ones
AllFrames == <<CurrentFrame>> \o suspended

\* a stage of this run failed for a reason outside the program text
FrameFaulted(f) == \E i \in DOMAIN f.trace : f.trace[i].msg = StageFault

\* what a run returns when it is the only run and no stage fails for an
\* outside reason: the stages applied one after the other to the content
RunAlone(c, cfg) ==
    LET parsed == DataParserImpl(c, cfg, 0)
        summ == SummarizerImpl(parsed.val, cfg)
        opt == OptimizerImpl(summ.val, cfg)
    IN IF ~parsed.ok
       THEN [success |-> FALSE, processed_content |-> <<>>, summary |-> <<>>]
       ELSE [success |-> TRUE, processed_content |-> opt.val, summary |-> summ.val]

\* C11: run calls interleaved at stage boundaries against one Orchestrator
\* do not interfere: each returns the success flag, processed_content and
\* summary it returns when run alone on its content, carries the request_id
\* of its own request, and the generated request ids are pairwise distinct.
C11_RunsDoNotInterfere ==
    /\ \A i \in DOMAIN AllFrames :
        LET f == AllFrames[i]
            alone == RunAlone(f.content, settings)
        IN f.pc = "returned" =>
            /\ f.response.built
            /\ f.response.request_id = f.request.request_id
            /\ FrameFaulted(f) =>
                /\ ~f.response.success
                /\ f.response.processed_content = <<>>
                /\ f.response.summary = <<>>
            /\ ~FrameFaulted(f) =>
                /\ f.response.success = alone.success
                /\ f.response.processed_content = alone.processed_content
                /\ f.response.summary = alone.summary
    /\ \A i, j \in DOMAIN AllFrames :
        (i # j /\ AllFrames[i].pc \notin {"idle", "raised"}
               /\ AllFrames[j].pc \notin {"idle", "raised"})
            => AllFrames[i].request.request_id # AllFrames[j].request.request_id

\* both runs have returned successfully, and the second started before the
\* first had parsed (the first two uuids went to the two requests)
C11_Witness ==
    /\ \A i \in DOMAIN AllFrames :
        AllFrames[i].pc = "returned" /\ AllFrames[i].response.success
    /\ \E i, j \in DOMAIN AllFrames :
        /\ AllFrames[i].response.request_id = Uuid(1)
        /\ AllFrames[j].response.request_id = Uuid(2)
        /\ AllFrames[i].response.summary # AllFrames[j].response.summary
        /\ AllFrames[i].parsed_data.id = Uuid(4)

\* the stages that transform content
ContentStages == {"data_parser", "summarizer", "optimizer"}

\* the run calls that have returned a success response
SuccessfulRuns ==
    {i \in DOMAIN AllFrames :
        AllFrames[i].pc = "returned" /\ AllFrames[i].response.success}

\* C12: once every gathered run call has returned successfully, the
\* collector's requests_processed of each content-transform stage equals
\* the number of those runs.
C12_CollectorCountsEachRun ==
    SuccessfulRuns = DOMAIN AllFrames =>
        \A agent \in ContentStages :
            agent_metrics[agent].requests_processed = Cardinality(SuccessfulRuns)
\* the messages the synchronous orchestrator logged, in order
SyncLogged == SelectSeq(trace, LAMBDA e : e.ev = "print" /\ e.tag = "LOG")

\* the value the synchronous run returned
SyncReturned == pc = "returned" /\ Len(SyncLogged) = 3

\* C13 as stated: the synchronous run returns the input stripped of leading
\* and trailing whitespace and then cut to its first 50 characters,
\* data.strip()[:50].
C13_StripThenTruncate ==
    SyncReturned =>
        optimized_content = SliceTo(Strip(content.val), SyncSummaryLength)

\* C13 as the code has it: the synchronous run returns the first 50
\* characters of the input, stripped of leading and trailing whitespace,
\* data[:50].strip(); the two agree when the input has no leading whitespace
\* and no whitespace at position 50 of its stripped form.
C13_TruncateThenStrip ==
    SyncReturned =>
        /\ optimized_content = Strip(SliceTo(content.val, SyncSummaryLength))
        /\ (LStrip(content.val) = content.val
              /\ \/ Len(content.val) < SyncSummaryLength
                 \/ content.val[SyncSummaryLength] \notin Whitespace)
            => optimized_content = SliceTo(Strip(content.val), SyncSummaryLength)

\* a run on a space followed by 50 letters has returned the first 49 letters
C13_Witness ==
    /\ SyncReturned
    /\ content = Str(<<" ">> \o Letters(SyncSummaryLength))
    /\ optimized_content = Letters(SyncSummaryLength - 1)
SyncMessages == <<"Parsing data", "Summarizing data", "Optimizing summary">>

SyncStages == <<"parse", "summarize", "optimize">>

\* C14: a run of the synchronous orchestrator logs exactly 'Parsing data',
\* 'Summarizing data', 'Optimizing summary' in that order, each one before
\* its stage (parse, summarize, optimize) is invoked and after the stage
\* before it, and invokes the stages once each in that order.
C14_SyncLogOrder ==
    /\ Len(SyncLogged) = Len(Invoked)
    /\ Len(Invoked) <= Len(SyncStages)
    /\ \A k \in 1..Len(Invoked) :
        /\ SyncLogged[k].msg = SyncMessages[k]
        /\ Invoked[k].tag = SyncStages[k]
        /\ Cardinality(CheckpointAt(SyncMessages[k])) = 1
        /\ Cardinality(At("invoke", k - 1)) = 1
        /\ Before(CheckpointAt(SyncMessages[k]), At("invoke", k - 1))
        /\ k > 1 => Before(At("invoke", k - 2), CheckpointAt(SyncMessages[k]))
    /\ pc = "returned" => Len(Invoked) = Len(SyncStages)
    /\ Len(trace) = Len(SyncLogged) + Len(Invoked)

C14_Witness ==
    /\ pc = "returned"
    /\ content = Str(<<"a">>)
    /\ Len(SyncLogged) = 3
    /\ Invoked[3].tag = "optimize"
\* the record_request calls made with this name
CallsOf(agent_name) == SelectSeq(calls, LAMBDA c : c.agent_name = agent_name)

RECURSIVE SumDurations(_)
SumDurations(cs) == IF cs = <<>> THEN 0 ELSE Head(cs).duration + SumDurations(Tail(cs))

\* the counters of the name are what its calls add up to
CountersMatchCalls(agent_name) ==
    LET own == CallsOf(agent_name)
        m == agent_metrics[agent_name]
    IN /\ m.requests_processed = Len(own)
       /\ m.error_count = Len(SelectSeq(own, LAMBDA c : ~c.success))
       /\ m.error_count <= m.requests_processed
       /\ m.total_processing_time = SumDurations(own)

\* C15 as stated: after any sequence of record_request calls, every name
\* used in those calls has counters, and they equal the number of its calls,
\* the number of its failed calls and the sum of its durations; the counters
\* of every other stage are unchanged.
C15_EveryNameCounted ==
    /\ \A i \in DOMAIN calls :
        /\ calls[i].agent_name \in DOMAIN agent_metrics
        /\ CountersMatchCalls(calls[i].agent_name)
    /\ \A agent \in DOMAIN agent_metrics :
        CallsOf(agent) = <<>> => agent_metrics[agent] = NewAgentMetrics(agent)

\* C15 as the code has it: the collector keeps counters for the four
\* registered names only; for each of them requests_processed, error_count
\* and total_processing_time are the number of its calls, the number of its
\* failed calls and the sum of its durations, the average is their quotient,
\* and a registered name without calls keeps its initial counters. A call
\* with any other name changes no counters.
C15_RegisteredNamesCounted ==
    /\ DOMAIN agent_metrics = RegisteredAgents
    /\ \A agent \in RegisteredAgents :
        /\ CountersMatchCalls(agent)
        /\ agent_metrics[agent].agent_name = agent
        /\ CallsOf(agent) # <<>> =>
            agent_metrics[agent].average_processing_time =
                Quotient(SumDurations(CallsOf(agent)), Len(CallsOf(agent)))
        /\ CallsOf(agent) = <<>> => agent_metrics[agent] = NewAgentMetrics(agent)

\* three calls were recorded: one for a name that is not registered, and a
\* success and a failure for data_parser
C15_Witness ==
    /\ Len(calls) = 3
    /\ calls[1].agent_name = "test_agent"
    /\ agent_metrics["data_parser"].requests_processed = 2
    /\ agent_metrics["data_parser"].error_count = 1
    /\ agent_metrics["data_parser"].total_processing_time = 3
    /\ agent_metrics["optimizer"] = NewAgentMetrics("optimizer")

\* C16: monitor_request never changes the outcome of the call it wraps: it
\* returns the wrapped function's result when the function returns and
\* raises the same failure when it fails, and in both cases it makes exactly
\* one record_request call, for the given name, with success = true iff the
\* function returned.
C16_MonitorKeepsOutcome ==
    monitored.made =>
        /\ monitored.given = monitored.func
        /\ monitored.after = monitored.before + 1
        /\ Len(calls) >= monitored.after
        /\ calls[monitored.after].agent_name = monitored.agent_name
        /\ calls[monitored.after].success = monitored.func.ok

\* a failing function was monitored: the failure came out and was recorded
C16_Witness ==
    /\ monitored.made
    /\ ~monitored.func.ok
    /\ monitored.given = Raised("Test error")
    /\ monitored.agent_name = "data_parser"
    /\ agent_metrics["data_parser"].error_count = 1
    /\ agent_metrics["data_parser"].requests_processed = 1
\* what the response of a finished run is built from
ResponseAsBuilt ==
    /\ response.request_id = request.request_id
    /\ response.success =>
        /\ response.processed_content = optimized_content
        /\ response.summary = summary
        /\ response.error_message = None
    /\ ~response.success =>
        /\ response.processed_content = <<>>
        /\ response.summary = <<>>

\* C17 as stated: every response, success or failure, has the request_id of
\* the request built for the call, which is the caller's request_id whenever
\* the caller supplied one and a freshly generated one otherwise; the
\* response is returned as the executor built it.
C17_RequestIdEchoed ==
    Finished =>
        /\ ResponseAsBuilt
        /\ request_id_arg # NoId => request.request_id = request_id_arg
        /\ request_id_arg = NoId =>
            /\ request.request_id = Uuid(1)
            /\ request.request_id # parsed_data.id

\* C17 as the code has it: the request takes the caller's request_id when it
\* is a non-empty string, and a freshly generated one when the caller gave
\* none or gave the empty string.
C17_NonEmptyRequestIdEchoed ==
    Finished =>
        /\ ResponseAsBuilt
        /\ TruthyId(request_id_arg) =>
            /\ request.request_id = request_id_arg
            /\ uuids <= 1
        /\ ~TruthyId(request_id_arg) =>
            /\ request.request_id = Uuid(1)
            /\ request.request_id # parsed_data.id

\* a run given a request_id failed at the Optimizer and answered with that id
C17_Witness ==
    /\ Finished
    /\ ~response.success
    /\ At("raise", 4) # {}
    /\ request_id_arg = CallerId
    /\ response.request_id = CallerId
\* the transformation of the stage at this position has returned
StageReturned(pos) == At("return", pos) # {}

\* C18: BaseAgent.process never swallows a failure and never alters a
\* result: each stage's transformation is invoked at most once and ends at
\* most once; what the executor holds after a stage returned is what the
\* transformation returned, and the run goes on; a failure the
\* transformation raised reaches the executor as that failure, which ends
\* the run with it as error_message.
C18_ProcessKeepsOutcome ==
    /\ \A pos \in 0..(NumStages - 1) :
        /\ Cardinality(At("invoke", pos)) <= 1
        /\ Cardinality(At("return", pos) \cup At("raise", pos))
               <= Cardinality(At("invoke", pos))
        /\ Before(At("invoke", pos), At("return", pos) \cup At("raise", pos))
    /\ StageReturned(0) =>
        parsed_data = DataParserImpl(request.content, settings, uuids - 1).val
    /\ StageReturned(2) => summary = SummarizerImpl(parsed_data, settings).val
    /\ StageReturned(4) => optimized_content = OptimizerImpl(summary, settings).val
    /\ \A i \in DOMAIN trace :
        trace[i].ev = "raise" =>
            /\ i = Len(trace) - 2
            /\ response.built
            /\ ~response.success
            /\ response.error_message = trace[i].msg
    /\ (Finished /\ \A i \in DOMAIN trace : trace[i].ev # "raise") =>
        /\ response.success
        /\ \A pos \in 0..(NumStages - 1) : StageReturned(pos)

\* the parser raised its own failure on a value that is not text, and the
\* run ended with that failure
C18_Witness ==
    /\ Finished
    /\ content = IntValue
    /\ At("raise", 0) # {}
    /\ At("return", 0) = {}
    /\ response.error_message = DataMustBeString
\* the number of whitespace-delimited words: the positions where a word starts
WordCount(text) ==
    Cardinality({i \in DOMAIN text :
        text[i] \notin Whitespace /\ (i = 1 \/ text[i - 1] \in Whitespace)})

\* the positions of '.' in the text
Dots(text) == {i \in DOMAIN text : text[i] = "."}

\* the text between its first and its last character that is not whitespace
Trimmed(text) ==
    LET solid == {i \in DOMAIN text : text[i] \notin Whitespace}
    IN IF solid = {} THEN <<>>
       ELSE SubSeq(text, CHOOSE i \in solid : \A j \in solid : i <= j,
                         CHOOSE i \in solid : \A j \in solid : i >= j)

\* the summary the claim describes for a content and max_summary_length
ExpectedSummary(text, max_length) ==
    IF text = <<>> THEN <<>>
    ELSE IF WordCount(text) <= max_length THEN text
    ELSE IF Dots(text) = {}
         THEN SubSeq(text, 1, Min(Len(text), max_length))
         ELSE LET dot == CHOOSE i \in Dots(text) : \A j \in Dots(text) : i <= j
                  first == Trimmed(SubSeq(text, 1, dot - 1))
              IN IF Len(first) > max_length
                 THEN SubSeq(first, 1, max_length - 3) \o <<".", ".", ".">>
                 ELSE first

====
